---- MODULE Spec2Model ----
(***************************************************************************)
(* A model of the SeaweedFS client library (package swfsclient).           *)
(*                                                                         *)
(* The caching client (SwfsClient with volumeLocationsCache) is modelled   *)
(* operation by operation: every public operation is one action, its       *)
(* network replies are inputs drawn from small sets, and the requests it   *)
(* issued are recorded in the order they were made.  The older client      *)
(* variant of swfsclient.go is modelled where it differs.                  *)
(*                                                                         *)
(* Strings that the code takes apart (file identifiers) are sequences of   *)
(* one-character strings.                                                  *)
(***************************************************************************)
EXTENDS Integers, Sequences, FiniteSets, TLC

VARIABLES
    cache,      \* volumeLocationsCache: volume ID -> [object, Expiration, insertedAt]
    now,        \* the clock, in minutes since the client was constructed
    nextSweep,  \* when the cache's janitor is next due
    last,       \* the most recent operation: its arguments, requests and results
    inflight    \* the resolves running concurrently, each at its step, and
                \* the location sets the master has answered them

vars == <<cache, now, nextSweep, last, inflight>>

----------------------------------------------------------------------------
(* Bounds of the model. *)

\* The clock stops here (minutes).
MaxTime == 15
\* The clock advances in steps of this many minutes.
TickMinutes == 5
\* Longest string the identifier parser is run on.
MaxLen == 5
\* Largest content length and largest declared or reported size, in bytes.
MaxSize == 2
\* The fileSizeLimit the client is constructed with, in bytes.
FileSizeLimit == 1

----------------------------------------------------------------------------
(* Errors.  Go's nil error is Nil; every error is a string. *)

Nil == "nil"
ErrFileNotFound == "File not found"
ErrInvalidFileID == "Invalid fileID"
ErrTransport == "transport error"
ErrJSON == "json unmarshal error"
ErrMasterMessage == "volume id not found"

----------------------------------------------------------------------------
(* strings.Contains and strings.Split for a one-character separator. *)

Contains(s, sep) == \E i \in 1..Len(s) : s[i] = sep

\* The position of the first sep in s at or after position i, or Len(s)+1.
RECURSIVE IndexFrom(_, _, _)
IndexFrom(s, sep, i) ==
    IF i > Len(s) THEN Len(s) + 1
    ELSE IF s[i] = sep THEN i
    ELSE IndexFrom(s, sep, i + 1)

\* strings.Split(s, sep): the pieces between the separators, empty pieces kept;
\* a string without the separator is returned as its own single piece.
RECURSIVE Split(_, _)
Split(s, sep) ==
    LET j == IndexFrom(s, sep, 1) IN
    IF j > Len(s) THEN <<s>>
    ELSE <<SubSeq(s, 1, j - 1)>> \o Split(SubSeq(s, j + 1, Len(s)), sep)

getVolumeIDFromFileID(fileID) ==
    LET parts == IF Contains(fileID, ",") THEN Split(fileID, ",")
                 ELSE Split(fileID, "/")
    IN  IF Len(parts) # 2
        THEN [volumeID |-> <<>>, err |-> ErrInvalidFileID]
        ELSE [volumeID |-> parts[1], err |-> Nil]

----------------------------------------------------------------------------
(* The master's /dir/lookup and what it can answer. *)

\* ServerLocation: url for server-to-server traffic, publicUrl for clients.
LocA == [URL |-> "10.0.0.1:8080", PublicURL |-> "a.example:8080"]
LocB == [URL |-> "10.0.0.2:8080", PublicURL |-> "b.example:8080"]

\* The location lists a lookup body can carry.
LocationLists == {<<>>, <<LocB>>, <<LocA, LocB>>}

\* A body that is not JSON of the expected shape.
Undecodable == [VolumeLocations |-> <<>>, Error |-> "<not json>"]

\* LookupResult as json.Unmarshal fills it from a decodable body.
LookupBodies ==
    {[VolumeLocations |-> ls, Error |-> ""] : ls \in LocationLists}
    \cup {[VolumeLocations |-> ls, Error |-> ErrMasterMessage] : ls \in {<<>>, <<LocB>>}}

\* What httpClient.get returns for /dir/lookup: a transport error, or a body.
MasterLookupReplies ==
    {[err |-> ErrTransport, body |-> Undecodable]}
    \cup {[err |-> Nil, body |-> b] : b \in LookupBodies \cup {Undecodable}}

\* A nil *LookupResult, and the zero LookupResult a failed decode leaves behind.
NilLookupResult == [VolumeLocations |-> <<>>, Error |-> "", isNil |-> TRUE]
ZeroLookupResult == [VolumeLocations |-> <<>>, Error |-> "", isNil |-> FALSE]

\* The request doLookup sends: GET /dir/lookup?volumeId=volID.
\* It is recorded with the reply it got.
LookupRequest(volID, reply) == [kind |-> "lookup", volumeId |-> volID, reply |-> reply]

doLookup(volID, reply) ==
    LET calls == <<LookupRequest(volID, reply)>> IN
    IF reply.err # Nil
    THEN [result |-> NilLookupResult, err |-> reply.err, calls |-> calls]
    ELSE IF reply.body = Undecodable
    THEN [result |-> ZeroLookupResult, err |-> ErrJSON, calls |-> calls]
    ELSE LET result == [VolumeLocations |-> reply.body.VolumeLocations,
                        Error |-> reply.body.Error, isNil |-> FALSE]
         IN  IF result.Error # ""
             THEN [result |-> result, err |-> result.Error, calls |-> calls]
             ELSE [result |-> result, err |-> Nil, calls |-> calls]

Lookup(volID, reply) == doLookup(volID, reply)

----------------------------------------------------------------------------
(* The location cache (patrickmn/go-cache): items with an absolute          *)
(* expiration, dropped lazily by Get and periodically by the janitor.       *)

\* cache.New(5*time.Minute, 10*time.Minute), in minutes.
DefaultTTL == 5
CleanupInterval == 10

\* go-cache's two special durations.
NoExpiration == -1
DefaultExpiration == 0

Expired(item, t) == item.Expiration > 0 /\ t > item.Expiration

\* Cache.Set(k, x, d) at time t.  insertedAt records t for the properties.
cacheSet(c, k, x, d, t) ==
    LET dd == IF d = DefaultExpiration THEN DefaultTTL ELSE d
        e  == IF dd > 0 THEN t + dd ELSE 0
    IN  [kk \in DOMAIN c \cup {k} |->
            IF kk = k THEN [Object |-> x, Expiration |-> e, insertedAt |-> t]
            ELSE c[kk]]

\* Cache.Get(k) at time t.
cacheGet(c, k, t) ==
    IF k \in DOMAIN c /\ ~Expired(c[k], t)
    THEN [object |-> c[k].Object, found |-> TRUE]
    ELSE [object |-> <<>>, found |-> FALSE]

\* Cache.DeleteExpired() at time t, the janitor's pass.
DeleteExpired(c, t) ==
    [k \in {kk \in DOMAIN c : ~Expired(c[kk], t)} |-> c[k]]

----------------------------------------------------------------------------
(* The resolver. *)

\* The duration GetVolumeLocationsFromFileID passes to Set.
SetExpirationNever == NoExpiration
SetExpiration == DefaultExpiration

\* Whether the resolver uses the cached item Get reports.
UseCachedAlways(withCache, found) == found
UseCachedNever(withCache, found) == FALSE
UseCached(withCache, found) == withCache /\ found

\* Whether the resolver rejects this location list as "File not found".
RejectNothing(vls) == FALSE
IsNotFound(vls) == Len(vls) = 0

\* What the resolver puts in the cache: &lookupResult.VolumeLocations, the
\* whole list of the lookup it has just made.
CachedObjectHeadOnly(vls) == <<vls[1]>>
CachedObject(vls) == vls

\* The key the resolver stores the list under: the volume ID it parsed.
CacheKeyWholeID(fileID, volumeID) == fileID
CacheKey(fileID, volumeID) == volumeID

\* reply is the master's answer, consumed only if the lookup is made.
GetVolumeLocationsFromFileID(fileID, withCache, c, t, reply) ==
    LET p == getVolumeIDFromFileID(fileID)
        g == cacheGet(c, p.volumeID, t)
        l == doLookup(p.volumeID, reply)
    IN  IF p.err # Nil
        THEN [vls |-> <<>>, err |-> p.err, cache |-> c, calls |-> <<>>]
        ELSE IF UseCached(withCache, g.found)
        THEN [vls |-> g.object, err |-> Nil, cache |-> c, calls |-> <<>>]
        ELSE IF l.err # Nil
        THEN [vls |-> <<>>, err |-> l.err, cache |-> c, calls |-> l.calls]
        ELSE IF IsNotFound(l.result.VolumeLocations)
        THEN [vls |-> <<>>, err |-> ErrFileNotFound, cache |-> c, calls |-> l.calls]
        ELSE [vls |-> l.result.VolumeLocations, err |-> Nil,
              cache |-> cacheSet(c, CacheKey(fileID, p.volumeID),
                                 CachedObject(l.result.VolumeLocations),
                                 SetExpiration, t),
              calls |-> l.calls]

----------------------------------------------------------------------------
(* Server selection over a VolumeLocations list. *)

\* VolumeLocations.Head(): the first location.
VolumeLocationsHead(vls) == vls[1]

\* VolumeLocations.RandomPickForRead(): the location at a random index, which
\* the caller of this operator draws from PickIndices(vls).
PickIndices(vls) == 1..Len(vls)
RandomPickForRead(vls, i) == vls[i]

----------------------------------------------------------------------------
(* The volume servers, as httpClient.download and httpClient.delete see them. *)

ErrConsumer == "Fake error"
ErrStatus == "unexpected status 500"

\* download(fileURL, callback): the file's name, or the error of the transport
\* or of the caller's callback.
DownloadResults ==
    { [fileName |-> "a.txt", err |-> Nil],
      [fileName |-> "", err |-> ErrTransport],
      [fileName |-> "", err |-> ErrConsumer] }

\* delete(fileURL): nil or an error.
DeleteResults == {Nil, ErrTransport, ErrStatus}

\* The entry an internal resolve leaves in the operation's record.
ResolveStep(withCache, r) ==
    [kind |-> "resolve", withCache |-> withCache, vls |-> r.vls, err |-> r.err]

----------------------------------------------------------------------------
(* Download and DeleteFile: resolve, select, operate, at most twice. *)

\* for retry := 2; retry > 0; retry--
DownloadRetriesThree == 2 + 1
DownloadRetries == 2

DeleteRetriesThree == 2 + 1
DeleteRetries == 2

\* The host Download fetches from: vls.RandomPickForRead().PublicURL.
DownloadTargetHead(vls, i) == VolumeLocationsHead(vls).PublicURL
DownloadTargetOutside(vls, i) == LocA.PublicURL
DownloadTarget(vls, i) == RandomPickForRead(vls, i).PublicURL

\* The host DeleteFile sends to: vls.Head().URL.
DeleteTargetLast(vls) == vls[Len(vls)].URL
DeleteTarget(vls) == VolumeLocationsHead(vls).URL

\* The value Download gives withCache after a failed iteration.
DownloadRetryWithCacheStill == TRUE
DownloadRetryWithCache == FALSE

\* The value DeleteFile gives withCache after a failed iteration.
DeleteRetryWithCacheStill == TRUE
DeleteRetryWithCache == FALSE

\* Every way the loop of Download can run from its iteration with `retry`
\* left: the set of [fileName, err, cache, calls].
RECURSIVE DownloadLoop(_, _, _, _, _, _, _)
DownloadLoop(fileID, retry, withCache, c, t, calls, err) ==
    IF retry <= 0
    THEN {[fileName |-> "", err |-> err, cache |-> c, calls |-> calls]}
    ELSE UNION {
        LET r  == GetVolumeLocationsFromFileID(fileID, withCache, c, t, reply)
            cs == calls \o <<ResolveStep(withCache, r)>> \o r.calls
        IN  IF r.err # Nil
            THEN {[fileName |-> "", err |-> r.err, cache |-> r.cache, calls |-> cs]}
            ELSE UNION {
                LET host == DownloadTarget(r.vls, i)
                    req  == [kind |-> "download", host |-> host, path |-> fileID,
                             err |-> d.err]
                IN  IF d.err = Nil
                    THEN {[fileName |-> d.fileName, err |-> Nil, cache |-> r.cache,
                           calls |-> cs \o <<req>>]}
                    ELSE DownloadLoop(fileID, retry - 1, DownloadRetryWithCache, r.cache, t,
                                      cs \o <<req>>, d.err)
                : i \in PickIndices(r.vls), d \in DownloadResults }
        : reply \in MasterLookupReplies }

\* The cache as DeleteFile leaves it when its delete has succeeded: the loop
\* returns nil and makes no call on the cache.
CacheAfterDeleteEvicted(c, volumeID) ==
    [k \in DOMAIN c \ {volumeID} |-> c[k]]
CacheAfterDelete(c, volumeID) == c

\* Every way the loop of DeleteFile can run: the set of [err, cache, calls].
RECURSIVE DeleteLoop(_, _, _, _, _, _, _)
DeleteLoop(fileID, retry, withCache, c, t, calls, err) ==
    IF retry <= 0
    THEN {[err |-> err, cache |-> c, calls |-> calls]}
    ELSE UNION {
        LET r  == GetVolumeLocationsFromFileID(fileID, withCache, c, t, reply)
            cs == calls \o <<ResolveStep(withCache, r)>> \o r.calls
        IN  IF r.err # Nil
            THEN {[err |-> r.err, cache |-> r.cache, calls |-> cs]}
            ELSE UNION {
                LET req == [kind |-> "delete", host |-> DeleteTarget(r.vls),
                            path |-> fileID, err |-> e]
                IN  IF e = Nil
                    THEN {[err |-> Nil,
                           cache |-> CacheAfterDelete(r.cache,
                                         getVolumeIDFromFileID(fileID).volumeID),
                           calls |-> cs \o <<req>>]}
                    ELSE DeleteLoop(fileID, retry - 1, DeleteRetryWithCache, r.cache, t,
                                    cs \o <<req>>, e)
                : e \in DeleteResults }
        : reply \in MasterLookupReplies }

----------------------------------------------------------------------------
(* LookupServerByFileID and LookupFileID: one uncached lookup, then select. *)

\* The server a read lookup returns: RandomPickForRead().PublicURL.
LookupServerForReadHead(vls, i) == VolumeLocationsHead(vls).PublicURL
LookupServerForRead(vls, i) == RandomPickForRead(vls, i).PublicURL

\* The server a write lookup returns: Head().URL.
LookupServerForWriteLast(vls) == vls[Len(vls)].URL
LookupServerForWrite(vls) == VolumeLocationsHead(vls).URL

\* i is the random index, used only by a successful read lookup.
LookupServerByFileID(fileID, readonly, reply, i) ==
    LET p == getVolumeIDFromFileID(fileID)
        l == Lookup(p.volumeID, reply)
        err == IF l.err # Nil THEN l.err
               ELSE IF Len(l.result.VolumeLocations) = 0 THEN ErrFileNotFound
               ELSE Nil
    IN  IF p.err # Nil
        THEN [server |-> "", err |-> p.err, calls |-> <<>>]
        ELSE IF err # Nil
        THEN [server |-> "", err |-> err, calls |-> l.calls]
        ELSE [server |-> IF readonly
                         THEN LookupServerForRead(l.result.VolumeLocations, i)
                         ELSE LookupServerForWrite(l.result.VolumeLocations),
              err |-> Nil, calls |-> l.calls]

\* The master's URL with its host replaced by the server and its path by fileID.
LookupFileID(fileID, readonly, reply, i) ==
    LET u == LookupServerByFileID(fileID, readonly, reply, i)
    IN  IF u.err = Nil
        THEN [fullURL |-> [scheme |-> "http", host |-> u.server, path |-> fileID],
              err |-> Nil, calls |-> u.calls]
        ELSE [fullURL |-> [scheme |-> "", host |-> "", path |-> <<>>],
              err |-> u.err, calls |-> u.calls]

\* The indices a lookup's random pick can draw: those of the list the master
\* answered, or a single dummy when no pick is made.
LookupPickIndices(reply) ==
    IF reply.err = Nil /\ Len(reply.body.VolumeLocations) > 0
    THEN PickIndices(reply.body.VolumeLocations)
    ELSE {1}

----------------------------------------------------------------------------
(* Upload descriptors (SwFile). *)

\* mime.TypeByExtension of the lower-cased extension of the name; "" if none.
MimeTypeOf(fileName) == IF fileName = "a.txt" THEN "text/plain; charset=utf-8" ELSE ""

\* Reader is the number of bytes the content stream still holds.
NewSwFileFromReader(reader, fileName, fileSize) ==
    [Reader |-> reader, FileName |-> fileName, FileSize |-> fileSize,
     MimeType |-> MimeTypeOf(fileName), ModTime |-> 0,
     Collection |-> "", TTL |-> "", FileID |-> <<>>, Etag |-> ""]

\* A file on disk: its base name, its size and its modification time.
NewSwFile(file) ==
    [Reader |-> file.size, FileName |-> file.name, FileSize |-> file.size,
     MimeType |-> MimeTypeOf(file.name), ModTime |-> file.mtime,
     Collection |-> "", TTL |-> "", FileID |-> <<>>, Etag |-> ""]

\* The descriptors UploadSwFile is called with.
Descriptors ==
    { NewSwFileFromReader(reader, fileName, fileSize) :
        reader \in 0..MaxSize, fileName \in {"a", "a.txt"}, fileSize \in 0..MaxSize }

\* The files UploadFile is called with.
Files == { [name |-> "a.txt", size |-> n, mtime |-> 7] : n \in 0..MaxSize }

----------------------------------------------------------------------------
(* Assign and upload.  UploadSwFile is the caching client's                 *)
(* (volumeLocationsCache in its struct); UploadSwFileNoCache is the one of  *)
(* the client without a cache, swfsclient.go.                               *)

ErrWrongUploadSize == "wrong upload size"
ErrAssignMessage == "no free volumes left"

\* The file identifier and the volume server an assign hands out.
AssignedFileID == <<"3", ",", "n">>
AssignedURL == LocA.URL

\* AssignResult as json.Unmarshal fills it from a decodable body.
AssignBodies ==
    { [FileID |-> <<>>, URL |-> "", Count |-> 0, Error |-> e, isNil |-> FALSE] :
        e \in {"", ErrAssignMessage} }
    \cup { [FileID |-> AssignedFileID, URL |-> AssignedURL, Count |-> 1,
            Error |-> e, isNil |-> FALSE] : e \in {"", ErrAssignMessage} }

NilAssignResult == [FileID |-> <<>>, URL |-> "", Count |-> 0, Error |-> "", isNil |-> TRUE]
ZeroAssignResult == [FileID |-> <<>>, URL |-> "", Count |-> 0, Error |-> "", isNil |-> FALSE]

\* What httpClient.get returns for /dir/assign; decodable says whether the
\* body is JSON of the expected shape.
AssignReplies ==
    {[err |-> ErrTransport, decodable |-> FALSE, body |-> ZeroAssignResult]}
    \cup {[err |-> Nil, decodable |-> FALSE, body |-> ZeroAssignResult]}
    \cup {[err |-> Nil, decodable |-> TRUE, body |-> b] : b \in AssignBodies}

AssignRequest(reply) == [kind |-> "assign", reply |-> reply]

Assign(reply) ==
    LET calls == <<AssignRequest(reply)>> IN
    IF reply.err # Nil
    THEN [result |-> NilAssignResult, err |-> reply.err, calls |-> calls]
    ELSE IF ~reply.decodable
    THEN [result |-> ZeroAssignResult, err |-> ErrJSON, calls |-> calls]
    ELSE IF reply.body.Count = 0
    THEN [result |-> reply.body, err |-> reply.body.Error, calls |-> calls]
    ELSE [result |-> reply.body, err |-> Nil, calls |-> calls]

\* What httpClient.upload returns: a transport error, or the volume server's
\* body, UploadResult {Size, Etag} when it is decodable.
UploadReplies ==
    {[err |-> ErrTransport, decodable |-> FALSE, Size |-> 0, Etag |-> ""]}
    \cup {[err |-> Nil, decodable |-> FALSE, Size |-> 0, Etag |-> ""]}
    \cup {[err |-> Nil, decodable |-> TRUE, Size |-> n, Etag |-> "e1"] : n \in 0..MaxSize}

\* io.LimitReader(f.Reader, c.maxFileSize): the bytes an upload can send.
LimitReader(reader, n) == IF reader < n THEN reader ELSE n

\* The check of the reported size against the declared one.
SizeCheckIgnored(fileSize, size) == Nil
SizeCheck(fileSize, size) == IF fileSize # size THEN ErrWrongUploadSize ELSE Nil

\* f.FileID = assignResult.FileID, made once the assign has succeeded and
\* before the upload is sent.
SetFileIDNever(f, fileID) == f
SetFileID(f, fileID) == [f EXCEPT !.FileID = fileID]

\* f.Etag = uploadResult.Etag, made once the reported size has been accepted.
SetEtagNever(f, etag) == f
SetEtag(f, etag) == [f EXCEPT !.Etag = etag]

\* The caching client's UploadSwFile: the results and the descriptor after it.
UploadSwFile(f, areply, ureply) ==
    LET a    == Assign(areply)
        f1   == [SetFileID(f, a.result.FileID)
                   EXCEPT !.MimeType = IF f.MimeType = ""
                                       THEN "application/octet-stream"
                                       ELSE f.MimeType]
        sent == LimitReader(f.Reader, FileSizeLimit)
        req  == [kind |-> "upload", host |-> a.result.URL, path |-> f1.FileID,
                 ts |-> f.ModTime, fileName |-> f.FileName,
                 mimeType |-> f1.MimeType, sent |-> sent, reply |-> ureply]
        f2   == [f1 EXCEPT !.Reader = f.Reader - sent]
        cs   == a.calls \o <<req>>
    IN  IF a.err # Nil
        THEN [assignResult |-> a.result, err |-> a.err, f |-> f, calls |-> a.calls]
        ELSE IF ureply.err # Nil
        THEN [assignResult |-> a.result, err |-> ureply.err, f |-> f2, calls |-> cs]
        ELSE IF ~ureply.decodable
        THEN [assignResult |-> a.result, err |-> ErrJSON, f |-> f2, calls |-> cs]
        ELSE IF SizeCheck(f.FileSize, ureply.Size) # Nil
        THEN [assignResult |-> a.result, err |-> SizeCheck(f.FileSize, ureply.Size),
              f |-> f2, calls |-> cs]
        ELSE [assignResult |-> a.result, err |-> Nil,
              f |-> SetEtag(f2, ureply.Etag), calls |-> cs]

\* The value of the statement the cacheless client makes of a size mismatch:
\* errors.New("wrong upload size") as an expression statement, assigned to
\* nothing.
SizeCheckNoCache(fileSize, size) == Nil

\* The cacheless client's UploadSwFile: it sends no ts, always
\* application/octet-stream, and leaves the descriptor's fields alone.
UploadSwFileNoCache(f, areply, ureply) ==
    LET a    == Assign(areply)
        sent == LimitReader(f.Reader, FileSizeLimit)
        req  == [kind |-> "upload", host |-> a.result.URL, path |-> a.result.FileID,
                 ts |-> 0, fileName |-> f.FileName,
                 mimeType |-> "application/octet-stream", sent |-> sent,
                 reply |-> ureply]
        f2   == [f EXCEPT !.Reader = f.Reader - sent]
        cs   == a.calls \o <<req>>
    IN  IF a.err # Nil
        THEN [assignResult |-> a.result, err |-> a.err, f |-> f, calls |-> a.calls]
        ELSE IF ureply.err # Nil
        THEN [assignResult |-> a.result, err |-> ureply.err, f |-> f2, calls |-> cs]
        ELSE IF ~ureply.decodable
        THEN [assignResult |-> a.result, err |-> ErrJSON, f |-> f2, calls |-> cs]
        ELSE [assignResult |-> a.result,
              err |-> SizeCheckNoCache(f.FileSize, ureply.Size),
              f |-> f2, calls |-> cs]

\* UploadFile: NewSwFile, UploadSwFile, Close.
UploadFile(file, areply, ureply) == UploadSwFile(NewSwFile(file), areply, ureply)

\* SubmitResult as json.Unmarshal fills it from a decodable body of /submit.
SubmitBodies ==
    { [FileID |-> AssignedFileID, Size |-> n, Error |-> "", isNil |-> FALSE] :
        n \in 0..MaxSize }
    \cup {[FileID |-> <<>>, Size |-> 0, Error |-> ErrAssignMessage, isNil |-> FALSE]}

NilSubmitResult == [FileID |-> <<>>, Size |-> 0, Error |-> "", isNil |-> TRUE]
ZeroSubmitResult == [FileID |-> <<>>, Size |-> 0, Error |-> "", isNil |-> FALSE]

\* What httpClient.upload returns for /submit.
SubmitReplies ==
    {[err |-> ErrTransport, decodable |-> FALSE, body |-> ZeroSubmitResult]}
    \cup {[err |-> Nil, decodable |-> FALSE, body |-> ZeroSubmitResult]}
    \cup {[err |-> Nil, decodable |-> TRUE, body |-> b] : b \in SubmitBodies}

\* Submit: the whole file goes to the master in one request; the result is
\* whatever the body decodes to.
Submit(file, reply) ==
    LET f     == NewSwFile(file)
        calls == <<[kind |-> "submit", fileName |-> f.FileName,
                    mimeType |-> f.MimeType, sent |-> f.Reader, reply |-> reply]>>
    IN  IF reply.err # Nil
        THEN [result |-> NilSubmitResult, err |-> reply.err, calls |-> calls]
        ELSE IF ~reply.decodable
        THEN [result |-> ZeroSubmitResult, err |-> ErrJSON, calls |-> calls]
        ELSE [result |-> reply.body, err |-> Nil, calls |-> calls]

----------------------------------------------------------------------------
(* The master's maintenance and status endpoints: one GET each. *)

\* What httpClient.get returns for them; decodable says whether the body is
\* JSON of the shape Status and ClusterStatus decode.
MasterGetReplies ==
    { [err |-> ErrTransport, decodable |-> FALSE],
      [err |-> Nil, decodable |-> FALSE],
      [err |-> Nil, decodable |-> TRUE] }

MasterGet(path, reply) == [kind |-> "get", path |-> path, reply |-> reply]

\* GrowArgs, which Grow calls with the arguments it has built.
GrowArgs(reply) == [err |-> reply.err, calls |-> <<MasterGet("/vol/grow", reply)>>]
Grow(reply) == GrowArgs(reply)

DeleteCollection(reply) ==
    [err |-> reply.err, calls |-> <<MasterGet("/col/delete", reply)>>]

GC(reply) == [err |-> reply.err, calls |-> <<MasterGet("/vol/vacuum", reply)>>]

\* Status and ClusterStatus: the result is nil after a transport error, the
\* decoded body otherwise, with the decoder's error.
StatusOf(path, reply) ==
    [result |-> [isNil |-> reply.err # Nil, decoded |-> reply.err = Nil /\ reply.decodable],
     err    |-> IF reply.err # Nil THEN reply.err
                ELSE IF ~reply.decodable THEN ErrJSON ELSE Nil,
     calls  |-> <<MasterGet(path, reply)>>]

Status(reply) == StatusOf("/dir/status", reply)
ClusterStatus(reply) == StatusOf("/cluster/status", reply)

----------------------------------------------------------------------------
(* The state machine. *)

\* The file identifiers the operations are called with.
FileIDs ==
    { <<"3", ",", "a">>, <<"3", "/", "b">>, <<"3">>, <<"3", ",", "a", ",", "b">>,
      <<"3", ",">> }

NoOp == [op |-> "none"]

\* The callers that resolve concurrently.
Procs == {"p1", "p2"}

\* A caller that is not inside a resolve.
NotResolving == [pc |-> "idle", fileID |-> <<>>, withCache |-> FALSE, vls |-> <<>>, err |-> Nil]

NoneInFlight == [procs |-> [p \in Procs |-> NotResolving], answered |-> {}]

Init ==
    /\ cache = <<>>
    /\ now = 0
    /\ nextSweep = CleanupInterval
    /\ last = NoOp
    /\ inflight = NoneInFlight

\* No operation is recorded: the caller is free to start one.  Operations are
\* called one at a time and each runs to its return.
Idle == last = NoOp

\* The caller has taken the result of the operation that returned.
Returned ==
    /\ last # NoOp
    /\ last' = NoOp
    /\ UNCHANGED <<cache, now, nextSweep, inflight>>

\* Time passes.
Tick ==
    /\ Idle
    /\ now + TickMinutes <= MaxTime
    /\ now' = now + TickMinutes
    /\ last' = NoOp
    /\ UNCHANGED <<cache, nextSweep, inflight>>

\* The janitor's ticker fires every CleanupInterval and runs DeleteExpired.
Sweep ==
    /\ Idle
    /\ now >= nextSweep
    /\ cache' = DeleteExpired(cache, now)
    /\ nextSweep' = nextSweep + CleanupInterval
    /\ last' = [op |-> "DeleteExpired", at |-> now, pre |-> cache]
    /\ UNCHANGED <<now, inflight>>

Resolve ==
    /\ Idle
    /\ \E fileID \in FileIDs, withCache \in BOOLEAN, reply \in MasterLookupReplies :
        LET r == GetVolumeLocationsFromFileID(fileID, withCache, cache, now, reply) IN
        /\ cache'  = r.cache
        /\ last' = [op |-> "GetVolumeLocationsFromFileID", fileID |-> fileID,
                    withCache |-> withCache, at |-> now, pre |-> cache,
                    calls |-> r.calls, vls |-> r.vls, err |-> r.err]
        /\ UNCHANGED <<now, nextSweep, inflight>>

Download ==
    /\ Idle
    /\ \E fileID \in FileIDs :
        \E out \in DownloadLoop(fileID, DownloadRetries, TRUE, cache, now, <<>>, Nil) :
            /\ cache' = out.cache
            /\ last' = [op |-> "Download", fileID |-> fileID, at |-> now,
                        pre |-> cache, calls |-> out.calls,
                        fileName |-> out.fileName, err |-> out.err]
            /\ UNCHANGED <<now, nextSweep, inflight>>

DeleteFile ==
    /\ Idle
    /\ \E fileID \in FileIDs :
        \E out \in DeleteLoop(fileID, DeleteRetries, TRUE, cache, now, <<>>, Nil) :
            /\ cache' = out.cache
            /\ last' = [op |-> "DeleteFile", fileID |-> fileID, at |-> now,
                        pre |-> cache, calls |-> out.calls, err |-> out.err]
            /\ UNCHANGED <<now, nextSweep, inflight>>

LookupVolume ==
    /\ Idle
    /\ \E volID \in {<<"3">>}, reply \in MasterLookupReplies :
        LET r == Lookup(volID, reply) IN
        /\ last' = [op |-> "Lookup", volID |-> volID, at |-> now, pre |-> cache,
                    calls |-> r.calls, result |-> r.result, err |-> r.err]
        /\ UNCHANGED <<cache, now, nextSweep, inflight>>

LookupServer ==
    /\ Idle
    /\ \E fileID \in FileIDs, readonly \in BOOLEAN, reply \in MasterLookupReplies :
        \E i \in LookupPickIndices(reply) :
            LET r == LookupServerByFileID(fileID, readonly, reply, i) IN
            /\ last' = [op |-> "LookupServerByFileID", fileID |-> fileID,
                        readonly |-> readonly, at |-> now, pre |-> cache,
                        calls |-> r.calls, server |-> r.server, err |-> r.err]
            /\ UNCHANGED <<cache, now, nextSweep, inflight>>

LookupFile ==
    /\ Idle
    /\ \E fileID \in FileIDs, readonly \in BOOLEAN, reply \in MasterLookupReplies :
        \E i \in LookupPickIndices(reply) :
            LET r == LookupFileID(fileID, readonly, reply, i) IN
            /\ last' = [op |-> "LookupFileID", fileID |-> fileID,
                        readonly |-> readonly, at |-> now, pre |-> cache,
                        calls |-> r.calls, fullURL |-> r.fullURL, err |-> r.err]
            /\ UNCHANGED <<cache, now, nextSweep, inflight>>

\* The upload reply matters only when the assign succeeded.
UploadRepliesAfter(areply) ==
    IF Assign(areply).err = Nil THEN UploadReplies
    ELSE {CHOOSE u \in UploadReplies : u.err # Nil}

UploadDescriptor ==
    /\ Idle
    /\ \E f \in Descriptors, areply \in AssignReplies :
        \E ureply \in UploadRepliesAfter(areply) :
            LET r == UploadSwFile(f, areply, ureply) IN
            /\ last' = [op |-> "UploadSwFile", f |-> f, at |-> now, pre |-> cache,
                        calls |-> r.calls, assignResult |-> r.assignResult,
                        fAfter |-> r.f, err |-> r.err]
            /\ UNCHANGED <<cache, now, nextSweep, inflight>>

UploadDescriptorNoCache ==
    /\ Idle
    /\ \E f \in Descriptors, areply \in AssignReplies :
        \E ureply \in UploadRepliesAfter(areply) :
            LET r == UploadSwFileNoCache(f, areply, ureply) IN
            /\ last' = [op |-> "UploadSwFileNoCache", f |-> f, at |-> now,
                        pre |-> cache, calls |-> r.calls,
                        assignResult |-> r.assignResult, fAfter |-> r.f,
                        err |-> r.err]
            /\ UNCHANGED <<cache, now, nextSweep, inflight>>

UploadPath ==
    /\ Idle
    /\ \E file \in Files, areply \in AssignReplies :
        \E ureply \in UploadRepliesAfter(areply) :
            LET r == UploadFile(file, areply, ureply) IN
            /\ last' = [op |-> "UploadFile", f |-> NewSwFile(file), at |-> now,
                        pre |-> cache, calls |-> r.calls,
                        assignResult |-> r.assignResult, fAfter |-> r.f,
                        err |-> r.err]
            /\ UNCHANGED <<cache, now, nextSweep, inflight>>

\* GetVolumeLocationsFromFileID run by concurrent callers, one step at a
\* time: the parse, the cache's Get, the master lookup, the cache's Set and
\* the return.  Get, Set and DeleteExpired each hold the cache's lock for
\* their whole run; nothing else is atomic.
ResolveIDs == { <<"3", ",", "a">>, <<"3">> }

ResolveCall(p) ==
    /\ inflight.procs[p].pc = "idle"
    /\ \E fileID \in ResolveIDs, withCache \in BOOLEAN :
        LET parsed == getVolumeIDFromFileID(fileID) IN
        inflight' = [inflight EXCEPT !.procs[p] =
            IF parsed.err # Nil
            THEN [NotResolving EXCEPT !.pc = "done", !.err = parsed.err]
            ELSE [NotResolving EXCEPT !.pc = "get", !.fileID = fileID,
                                      !.withCache = withCache]]
    /\ UNCHANGED <<cache, now, nextSweep, last>>

ResolveGet(p) ==
    /\ inflight.procs[p].pc = "get"
    /\ LET me == inflight.procs[p]
           g  == cacheGet(cache, getVolumeIDFromFileID(me.fileID).volumeID, now)
       IN  inflight' = [inflight EXCEPT !.procs[p] =
               IF UseCached(me.withCache, g.found)
               THEN [NotResolving EXCEPT !.pc = "done", !.vls = g.object]
               ELSE [me EXCEPT !.pc = "lookup", !.withCache = FALSE]]
    /\ UNCHANGED <<cache, now, nextSweep, last>>

ResolveLookup(p) ==
    /\ inflight.procs[p].pc = "lookup"
    /\ \E reply \in MasterLookupReplies :
        LET me == inflight.procs[p]
            l  == doLookup(getVolumeIDFromFileID(me.fileID).volumeID, reply)
        IN  inflight' =
                IF l.err # Nil
                THEN [inflight EXCEPT !.procs[p] =
                         [NotResolving EXCEPT !.pc = "done", !.err = l.err]]
                ELSE IF IsNotFound(l.result.VolumeLocations)
                THEN [inflight EXCEPT !.procs[p] =
                         [NotResolving EXCEPT !.pc = "done", !.err = ErrFileNotFound]]
                ELSE [inflight EXCEPT
                         !.procs[p] = [me EXCEPT !.pc = "set",
                                                 !.vls = l.result.VolumeLocations],
                         !.answered = @ \cup {l.result.VolumeLocations}]
    /\ UNCHANGED <<cache, now, nextSweep, last>>

ResolveSet(p) ==
    /\ inflight.procs[p].pc = "set"
    /\ LET me == inflight.procs[p] IN
        /\ cache' = cacheSet(cache,
                             CacheKey(me.fileID, getVolumeIDFromFileID(me.fileID).volumeID),
                             CachedObject(me.vls), SetExpiration, now)
        /\ inflight' = [inflight EXCEPT !.procs[p] =
                           [NotResolving EXCEPT !.pc = "done", !.vls = me.vls]]
    /\ UNCHANGED <<now, nextSweep, last>>

ResolveReturn(p) ==
    /\ inflight.procs[p].pc = "done"
    /\ inflight' = [inflight EXCEPT !.procs[p] = NotResolving]
    /\ UNCHANGED <<cache, now, nextSweep, last>>

\* TestUploadLookupserverDeleteFile against a cluster whose servers are all
\* reachable: the master assigns AssignedFileID and answers every lookup
\* with the volume's locations, the volume server stores the bytes it is
\* sent under the path of the request and reports their number, and serves
\* and deletes what it has stored.
Content(file) == [i \in 1..file.size |-> i]

ServedAssign ==
    [err |-> Nil, decodable |-> TRUE,
     body |-> [FileID |-> AssignedFileID, URL |-> AssignedURL, Count |-> 1,
               Error |-> "", isNil |-> FALSE]]

ServedUpload(sent) == [err |-> Nil, decodable |-> TRUE, Size |-> sent, Etag |-> "e1"]

ServedLookup(ls) == [err |-> Nil, body |-> [VolumeLocations |-> ls, Error |-> ""]]

\* The runs of a loop in which the master answered ls and every volume
\* server served the request.
Served(outs, ls) ==
    { out \in outs :
        \A k \in 1..Len(out.calls) :
            /\ out.calls[k].kind = "lookup" => out.calls[k].reply = ServedLookup(ls)
            /\ out.calls[k].kind \in {"download", "delete"} => out.calls[k].err = Nil }

\* The bytes the volume server holds under a path, given the upload request
\* it was sent.
StoredAt(path, file, upload) ==
    IF path = upload.path THEN SubSeq(Content(file), 1, upload.sent) ELSE <<>>

\* The bytes the consumer of a Download was given: those of the request that
\* succeeded, none if there was none.
Delivered(dl, file, upload) ==
    LET reqs == SelectSeq(dl.calls, LAMBDA e : e.kind = "download" /\ e.err = Nil)
    IN  IF reqs = <<>> THEN <<>> ELSE StoredAt(reqs[1].path, file, upload)

UploadLookupserverDeleteFile ==
    /\ Idle
    /\ \E file \in Files, ls \in LocationLists \ {<<>>} :
        \E i \in PickIndices(ls), j \in PickIndices(ls) :
            LET sent == UploadFile(file, ServedAssign, ServedUpload(0)).calls[2].sent
                up   == UploadFile(file, ServedAssign, ServedUpload(sent))
                fid  == up.f.FileID
                srv  == LookupServerByFileID(fid, TRUE, ServedLookup(ls), i)
                url  == LookupFileID(fid, TRUE, ServedLookup(ls), j)
            IN  IF up.err # Nil
                THEN /\ last' = [op |-> "TestUploadLookupserverDeleteFile",
                                 file |-> file, at |-> now, pre |-> cache,
                                 fileID |-> fid, upload |-> up.err,
                                 lookupServer |-> Nil, download |-> Nil,
                                 downloaded |-> <<>>, lookupFile |-> Nil,
                                 delete |-> Nil, finished |-> FALSE]
                     /\ UNCHANGED <<cache, now, nextSweep, inflight>>
                ELSE \E dl \in Served(DownloadLoop(fid, DownloadRetries, TRUE, cache,
                                                   now, <<>>, Nil), ls) :
                     \E de \in Served(DeleteLoop(fid, DeleteRetries, TRUE, dl.cache,
                                                 now, <<>>, Nil), ls) :
                        /\ cache' = de.cache
                        /\ last' = [op |-> "TestUploadLookupserverDeleteFile",
                                    file |-> file, at |-> now, pre |-> cache,
                                    fileID |-> fid, upload |-> Nil,
                                    lookupServer |-> srv.err, download |-> dl.err,
                                    downloaded |-> Delivered(dl, file, up.calls[2]),
                                    lookupFile |-> url.err, delete |-> de.err,
                                    finished |-> TRUE]
                        /\ UNCHANGED <<now, nextSweep, inflight>>

GrowCall ==
    /\ Idle
    /\ \E reply \in MasterGetReplies :
        LET r == Grow(reply) IN
        /\ last' = [op |-> "Grow", at |-> now, pre |-> cache, calls |-> r.calls,
                    err |-> r.err]
        /\ UNCHANGED <<cache, now, nextSweep, inflight>>

DeleteCollectionCall ==
    /\ Idle
    /\ \E reply \in MasterGetReplies :
        LET r == DeleteCollection(reply) IN
        /\ last' = [op |-> "DeleteCollection", at |-> now, pre |-> cache,
                    calls |-> r.calls, err |-> r.err]
        /\ UNCHANGED <<cache, now, nextSweep, inflight>>

GCCall ==
    /\ Idle
    /\ \E reply \in MasterGetReplies :
        LET r == GC(reply) IN
        /\ last' = [op |-> "GC", at |-> now, pre |-> cache, calls |-> r.calls,
                    err |-> r.err]
        /\ UNCHANGED <<cache, now, nextSweep, inflight>>

StatusCall ==
    /\ Idle
    /\ \E reply \in MasterGetReplies :
        LET r == Status(reply) IN
        /\ last' = [op |-> "Status", at |-> now, pre |-> cache, calls |-> r.calls,
                    result |-> r.result, err |-> r.err]
        /\ UNCHANGED <<cache, now, nextSweep, inflight>>

ClusterStatusCall ==
    /\ Idle
    /\ \E reply \in MasterGetReplies :
        LET r == ClusterStatus(reply) IN
        /\ last' = [op |-> "ClusterStatus", at |-> now, pre |-> cache,
                    calls |-> r.calls, result |-> r.result, err |-> r.err]
        /\ UNCHANGED <<cache, now, nextSweep, inflight>>

AssignCall ==
    /\ Idle
    /\ \E areply \in AssignReplies :
        LET r == Assign(areply) IN
        /\ last' = [op |-> "Assign", at |-> now, pre |-> cache, calls |-> r.calls,
                    result |-> r.result, err |-> r.err]
        /\ UNCHANGED <<cache, now, nextSweep, inflight>>

SubmitPath ==
    /\ Idle
    /\ \E file \in Files, reply \in SubmitReplies :
        LET r == Submit(file, reply) IN
        /\ last' = [op |-> "Submit", file |-> file, at |-> now, pre |-> cache,
                    calls |-> r.calls, result |-> r.result, err |-> r.err]
        /\ UNCHANGED <<cache, now, nextSweep, inflight>>

Next ==
    \/ Returned
    \/ Tick
    \/ Sweep
    \/ Resolve
    \/ Download
    \/ DeleteFile
    \/ LookupVolume
    \/ LookupServer
    \/ LookupFile

Spec == Init /\ [][Next]_vars

\* The write path, with the lookups that fill the cache beside it and the
\* clock standing still.
NextUpload ==
    \/ Returned
    \/ Resolve
    \/ LookupVolume
    \/ AssignCall
    \/ SubmitPath
    \/ UploadDescriptor
    \/ UploadDescriptorNoCache
    \/ UploadPath

SpecUpload == Init /\ [][NextUpload]_vars

\* Every operation of the caching client but Download, on a cache that
\* resolves and deletes fill and the janitor sweeps.
NextFacade ==
    \/ Returned
    \/ Tick
    \/ Sweep
    \/ Resolve
    \/ DeleteFile
    \/ LookupVolume
    \/ LookupServer
    \/ LookupFile
    \/ AssignCall
    \/ SubmitPath
    \/ UploadDescriptor
    \/ UploadPath
    \/ GrowCall
    \/ DeleteCollectionCall
    \/ GCCall
    \/ StatusCall
    \/ ClusterStatusCall

SpecFacade == Init /\ [][NextFacade]_vars

\* The upload round trip of the test, on a client whose cache earlier
\* resolves have filled.
NextRoundTrip ==
    \/ Returned
    \/ Tick
    \/ Sweep
    \/ Resolve
    \/ UploadLookupserverDeleteFile

SpecRoundTrip == Init /\ [][NextRoundTrip]_vars

\* Concurrent resolves of one volume, with the clock and the janitor.
NextConcurrent ==
    \/ Returned
    \/ Tick
    \/ Sweep
    \/ \E p \in Procs : ResolveCall(p)
    \/ \E p \in Procs : ResolveGet(p)
    \/ \E p \in Procs : ResolveLookup(p)
    \/ \E p \in Procs : ResolveSet(p)
    \/ \E p \in Procs : ResolveReturn(p)

SpecConcurrent == Init /\ [][NextConcurrent]_vars

\* The identifier parser on its own, run on every string over these
\* characters of length up to MaxLen.
RECURSIVE StringsUpTo(_)
StringsUpTo(n) ==
    IF n = 0 THEN {<<>>}
    ELSE LET shorter == StringsUpTo(n - 1)
         IN  shorter \cup {Append(s, ch) : s \in shorter, ch \in {"3", ",", "/"}}

InitParse ==
    /\ cache = <<>>
    /\ now = 0
    /\ nextSweep = CleanupInterval
    /\ last \in {[op |-> "call getVolumeIDFromFileID", fileID |-> s] : s \in StringsUpTo(MaxLen)}
    /\ inflight = NoneInFlight

Parse ==
    /\ last.op = "call getVolumeIDFromFileID"
    /\ LET p == getVolumeIDFromFileID(last.fileID) IN
        last' = [op |-> "getVolumeIDFromFileID", fileID |-> last.fileID,
                 volumeID |-> p.volumeID, err |-> p.err]
    /\ UNCHANGED <<cache, now, nextSweep, inflight>>

NextParse == Parse

SpecParse == InitParse /\ [][NextParse]_vars

----------------------------------------------------------------------------
(* Reading an operation's record. *)

\* The entries of one kind, in the order they were made.
Steps(calls, kind) == SelectSeq(calls, LAMBDA e : e.kind = kind)

\* The positions in calls of the entries of one kind.
Positions(calls, kind) == {i \in 1..Len(calls) : calls[i].kind = kind}

\* The entries of one kind made after position i.
StepsAfter(calls, kind, i) ==
    Steps(SubSeq(calls, i + 1, Len(calls)), kind)

\* The position of the n-th entry of one kind (there are at least n).
PositionOf(calls, kind, n) ==
    CHOOSE i \in Positions(calls, kind) :
        Cardinality({j \in Positions(calls, kind) : j <= i}) = n

\* The resolve step that selected the target of the request at position i.
ResolveBefore(calls, i) ==
    LET rs == {j \in Positions(calls, "resolve") : j < i}
    IN  calls[CHOOSE j \in rs : \A k \in rs : k <= j]

\* A file identifier as the data model defines it: split on "," if present,
\* else on "/", into exactly two non-empty parts.
WellFormedID(s) ==
    LET sep == IF Contains(s, ",") THEN "," ELSE "/"
    IN  /\ Cardinality({i \in 1..Len(s) : s[i] = sep}) = 1
        /\ s[1] # sep
        /\ s[Len(s)] # sep

\* The volume ID of a well-formed identifier: what precedes its separator.
VolumeOf(s) ==
    LET sep == IF Contains(s, ",") THEN "," ELSE "/"
    IN  SubSeq(s, 1, IndexFrom(s, sep, 1) - 1)

\* Whether the entry c[v] is there and its TTL has not elapsed at time t.
Fresh(c, v, t) == v \in DOMAIN c /\ t <= c[v].insertedAt + DefaultTTL

----------------------------------------------------------------------------
(* C1: Download's single retry. *)

\* A Download has returned whose first request to a volume server failed.
DownloadFirstFailed ==
    /\ last.op = "Download"
    /\ Len(Steps(last.calls, "download")) >= 1
    /\ Steps(last.calls, "download")[1].err # Nil

\* After the first failed download: exactly one more resolve, made with the
\* cache bypassed, which sends exactly one master lookup.
DownloadReResolvedOnce ==
    LET rs == Steps(last.calls, "resolve")
        p1 == PositionOf(last.calls, "download", 1)
    IN  /\ Len(rs) = 2
        /\ rs[2].withCache = FALSE
        /\ Len(StepsAfter(last.calls, "resolve", p1)) = 1
        /\ Len(StepsAfter(last.calls, "lookup", p1)) = 1

\* C1 as stated: for every Download, if the first volume-server attempt fails,
\* exactly one re-resolve is made with the cache bypassed (a master lookup is
\* always issued), followed by exactly one retried download; if the retry also
\* fails, the second attempt's error is returned; no third resolve or download
\* is ever made.
C1_AsStated ==
    DownloadFirstFailed =>
        LET ds == Steps(last.calls, "download")
        IN  /\ DownloadReResolvedOnce
            /\ Len(ds) = 2
            /\ (ds[2].err # Nil => last.err = ds[2].err)

\* C1, amended: for every Download, if the first volume-server attempt fails,
\* exactly one re-resolve is made with the cache bypassed (a master lookup is
\* always issued); if that re-resolve succeeds it is followed by exactly one
\* retried download, whose error, if it fails, is returned; if the re-resolve
\* fails, its error is returned and no download is retried.  No Download makes
\* a third resolve or a third download.
C1_DownloadRetriesOnce ==
    last.op = "Download" =>
        LET ds == Steps(last.calls, "download")
            rs == Steps(last.calls, "resolve")
        IN  /\ Len(rs) <= 2
            /\ Len(ds) <= 2
            /\ Len(Steps(last.calls, "lookup")) <= 2
            /\ DownloadFirstFailed =>
                /\ DownloadReResolvedOnce
                /\ rs[2].err = Nil =>
                    /\ Len(ds) = 2
                    /\ last.calls[Len(last.calls)] = ds[2]
                    /\ last.err = ds[2].err
                /\ rs[2].err # Nil =>
                    /\ Len(ds) = 1
                    /\ last.err = rs[2].err

\* Both downloads of one Download failed, with different errors, and the
\* second one's error came back.
C1_Witness ==
    /\ DownloadFirstFailed
    /\ Len(Steps(last.calls, "download")) = 2
    /\ Steps(last.calls, "download")[1].err = ErrTransport
    /\ Steps(last.calls, "download")[2].err = ErrConsumer
    /\ last.err = ErrConsumer

----------------------------------------------------------------------------
(* C2: DeleteFile's single retry. *)

\* A DeleteFile has returned whose first delete request failed.
DeleteFirstFailed ==
    /\ last.op = "DeleteFile"
    /\ Len(Steps(last.calls, "delete")) >= 1
    /\ Steps(last.calls, "delete")[1].err # Nil

\* C2: for every DeleteFile, the first attempt resolves with the cache enabled
\* and sends the delete to the internal URL of the head of the resolved set;
\* if that delete fails, exactly one further attempt is made, resolving with
\* the cache bypassed (one master lookup) and deleting at the head of the set
\* just looked up; the failure of that second attempt is the result; there are
\* never more than two resolves or two delete requests.
C2_DeleteRetriesOnce ==
    last.op = "DeleteFile" =>
        LET ds == Steps(last.calls, "delete")
            rs == Steps(last.calls, "resolve")
        IN  /\ Len(rs) <= 2
            /\ Len(ds) <= 2
            /\ Len(rs) >= 1
            /\ rs[1].withCache = TRUE
            /\ \A i \in Positions(last.calls, "delete") :
                  LET r == ResolveBefore(last.calls, i)
                  IN  /\ r.err = Nil
                      /\ last.calls[i].host = r.vls[1].URL
                      /\ last.calls[i].path = last.fileID
            /\ rs[1].err = Nil => Len(ds) >= 1
            /\ DeleteFirstFailed =>
                LET p1 == PositionOf(last.calls, "delete", 1)
                    ls == StepsAfter(last.calls, "lookup", p1)
                IN  /\ Len(rs) = 2
                    /\ rs[2].withCache = FALSE
                    /\ Len(ls) = 1
                    /\ rs[2].err = Nil =>
                        /\ Len(ds) = 2
                        /\ rs[2].vls = ls[1].reply.body.VolumeLocations
                        /\ last.err = ds[2].err
                    /\ rs[2].err # Nil =>
                        /\ Len(ds) = 1
                        /\ last.err = rs[2].err

\* A DeleteFile served first from a cached one-element set and then, after a
\* failure, from a freshly looked-up two-element set; both deletes failed,
\* with different errors.
C2_Witness ==
    /\ DeleteFirstFailed
    /\ Len(Steps(last.calls, "delete")) = 2
    /\ Len(Steps(last.calls, "lookup")) = 1
    /\ Steps(last.calls, "resolve")[1].vls = <<LocB>>
    /\ Steps(last.calls, "resolve")[2].vls = <<LocA, LocB>>
    /\ Steps(last.calls, "delete")[1].err = ErrTransport
    /\ Steps(last.calls, "delete")[2].err = ErrStatus
    /\ last.err = ErrStatus

----------------------------------------------------------------------------
(* C3 - C6: the resolver and the cache. *)

\* A resolve of a well-formed identifier has returned.
Resolved == last.op = "GetVolumeLocationsFromFileID" /\ WellFormedID(last.fileID)

\* C3: a resolve with useCache = true, made while the cache holds an entry for
\* the volume ID whose TTL has not elapsed, makes no master call and returns
\* exactly the cached set.
C3_CachedResolveIsLocal ==
    (Resolved /\ last.withCache /\ Fresh(last.pre, VolumeOf(last.fileID), last.at)) =>
        /\ last.calls = <<>>
        /\ last.err = Nil
        /\ last.vls = last.pre[VolumeOf(last.fileID)].Object
        /\ cache = last.pre

\* A cached resolve answered from an entry that an earlier resolve stored.
C3_Witness ==
    /\ Resolved
    /\ last.withCache
    /\ Fresh(last.pre, VolumeOf(last.fileID), last.at)
    /\ last.pre[VolumeOf(last.fileID)].insertedAt < last.at
    /\ last.vls = <<LocA, LocB>>

\* C4: a resolve of a well-formed identifier with useCache = false sends
\* exactly one master lookup for its volume ID, whether the cache holds a
\* fresh entry, an expired one or none.
C4_UncachedResolveCallsMaster ==
    (Resolved /\ ~last.withCache) =>
        /\ Len(last.calls) = 1
        /\ last.calls[1].kind = "lookup"
        /\ last.calls[1].volumeId = VolumeOf(last.fileID)

\* An uncached resolve that went to the master although the entry was fresh.
C4_Witness ==
    /\ Resolved
    /\ ~last.withCache
    /\ Fresh(last.pre, VolumeOf(last.fileID), last.at)
    /\ Len(last.calls) = 1

\* The lookup of the last resolve was answered, without error, by an empty
\* location list.
ResolvedEmpty ==
    /\ last.op = "GetVolumeLocationsFromFileID"
    /\ Len(last.calls) = 1
    /\ last.calls[1].reply.err = Nil
    /\ last.calls[1].reply.body # Undecodable
    /\ last.calls[1].reply.body.Error = ""
    /\ last.calls[1].reply.body.VolumeLocations = <<>>

\* C5: no cache entry holds an empty location set, no resolve returns an empty
\* set as success (as an operation or inside Download and DeleteFile), an
\* empty set from the master yields ErrFileNotFound and no cache write, and
\* LookupServerByFileID returns no server for an empty set.
C5_NeverEmpty ==
    /\ \A k \in DOMAIN cache : cache[k].Object # <<>>
    /\ (last.op = "GetVolumeLocationsFromFileID" /\ last.err = Nil) => last.vls # <<>>
    /\ last.op \in {"Download", "DeleteFile"} =>
          \A i \in Positions(last.calls, "resolve") :
              last.calls[i].err = Nil => last.calls[i].vls # <<>>
    /\ ResolvedEmpty =>
          /\ last.err = ErrFileNotFound
          /\ last.vls = <<>>
          /\ cache = last.pre
    /\ (last.op = "LookupServerByFileID" /\ Len(last.calls) = 1
        /\ last.calls[1].reply.err = Nil
        /\ last.calls[1].reply.body.VolumeLocations = <<>>) =>
          last.err # Nil /\ last.server = ""

\* The master answered an empty set for a volume the cache held an entry for.
C5_Witness ==
    /\ ResolvedEmpty
    /\ last.err = ErrFileNotFound
    /\ VolumeOf(last.fileID) \in DOMAIN last.pre

\* C6: once more than the TTL has passed since an entry was inserted, Get does
\* not return it, and a resolve with useCache = true does not answer from it
\* without a master call, whether or not the janitor has removed it.
C6_ExpiredNeverReturned ==
    /\ \A k \in DOMAIN cache :
          now > cache[k].insertedAt + DefaultTTL => ~cacheGet(cache, k, now).found
    /\ (Resolved /\ last.withCache /\ VolumeOf(last.fileID) \in DOMAIN last.pre
        /\ last.at > last.pre[VolumeOf(last.fileID)].insertedAt + DefaultTTL) =>
          /\ Len(last.calls) = 1
          /\ last.calls[1].kind = "lookup"

\* A cached resolve found an entry past its TTL that the janitor had not
\* removed, and went to the master.
C6_Witness ==
    /\ Resolved
    /\ last.withCache
    /\ VolumeOf(last.fileID) \in DOMAIN last.pre
    /\ last.at > last.pre[VolumeOf(last.fileID)].insertedAt + DefaultTTL
    /\ Len(last.calls) = 1

----------------------------------------------------------------------------
(* C8, C9: server selection. *)

\* The location list a LookupServerByFileID got from the master.
LookedUp == last.calls[1].reply.body.VolumeLocations

\* C8: every delete request of DeleteFile goes to the internal URL of the head
\* of the set just resolved, and every server a successful
\* LookupServerByFileID with readonly = false returns is the internal URL of
\* the head of the set the master answered.
C8_WriteSelectsHead ==
    /\ last.op = "DeleteFile" =>
          \A i \in Positions(last.calls, "delete") :
              last.calls[i].host = ResolveBefore(last.calls, i).vls[1].URL
    /\ (last.op = "LookupServerByFileID" /\ ~last.readonly /\ last.err = Nil) =>
          last.server = LookedUp[1].URL

\* A DeleteFile that resolved two replicas and sent its delete to the first.
C8_Witness ==
    /\ last.op = "DeleteFile"
    /\ \E i \in Positions(last.calls, "delete") :
          /\ ResolveBefore(last.calls, i).vls = <<LocA, LocB>>
          /\ last.calls[i].host = LocA.URL

\* Some Download that may start now resolves the list ls and fetches from its
\* j-th location: one of the runs the Download action chooses from does.
DownloadCanPick(ls, j) ==
    \E fileID \in FileIDs :
        \E out \in DownloadLoop(fileID, DownloadRetries, TRUE, cache, now, <<>>, Nil) :
            \E i \in Positions(out.calls, "download") :
                /\ ResolveBefore(out.calls, i).vls = ls
                /\ out.calls[i].host = ls[j].PublicURL

\* Some read lookup is possible now that is answered ls and returns its j-th
\* location.
LookupCanPick(ls, j) ==
    ENABLED (/\ LookupServer
             /\ last'.readonly
             /\ last'.err = Nil
             /\ last'.calls[1].reply.body.VolumeLocations = ls
             /\ last'.server = ls[j].PublicURL)

\* C9: every download request of Download goes to the public URL of a member
\* of the set just resolved, and every server a successful
\* LookupServerByFileID with readonly = true returns is the public URL of a
\* member of the set the master answered; and whenever an operation may start,
\* each location of each set the master may answer can be the one selected.
C9_ReadSelectsAnyMember ==
    /\ last.op = "Download" =>
          \A i \in Positions(last.calls, "download") :
              \E j \in 1..Len(ResolveBefore(last.calls, i).vls) :
                  last.calls[i].host = ResolveBefore(last.calls, i).vls[j].PublicURL
    /\ (last.op = "LookupServerByFileID" /\ last.readonly /\ last.err = Nil) =>
          \E j \in 1..Len(LookedUp) : last.server = LookedUp[j].PublicURL
    /\ Idle =>
          \A ls \in LocationLists : \A j \in 1..Len(ls) :
              DownloadCanPick(ls, j) /\ LookupCanPick(ls, j)

\* One Download fetched from both replicas of the same two-element set: the
\* first on its first attempt, the second on its retry.
C9_Witness ==
    /\ last.op = "Download"
    /\ Len(Steps(last.calls, "download")) = 2
    /\ Steps(last.calls, "resolve")[1].vls = <<LocA, LocB>>
    /\ Steps(last.calls, "resolve")[2].vls = <<LocA, LocB>>
    /\ Steps(last.calls, "download")[1].host = LocA.PublicURL
    /\ Steps(last.calls, "download")[2].host = LocB.PublicURL

----------------------------------------------------------------------------
(* C7: the identifier parser. *)

\* C7: for every identifier with exactly one separator and two non-empty
\* segments parsing succeeds and returns the volume-ID segment; for every
\* other string (empty, no separator, more than two segments, an empty
\* segment) parsing fails with the invalid-identifier error.
C7_AsStated ==
    last.op = "getVolumeIDFromFileID" =>
        /\ WellFormedID(last.fileID) =>
              last.err = Nil /\ last.volumeID = VolumeOf(last.fileID)
        /\ ~WellFormedID(last.fileID) => last.err = ErrInvalidFileID

----------------------------------------------------------------------------
(* C10: the size check of an upload. *)

\* An UploadSwFile of either client has returned whose volume server
\* answered, decodably, a stored size other than the declared one.
UploadSizeDiffers ==
    /\ last.op \in {"UploadSwFile", "UploadSwFileNoCache"}
    /\ Len(last.calls) = 2
    /\ last.calls[2].reply.err = Nil
    /\ last.calls[2].reply.decodable
    /\ last.calls[2].reply.Size # last.f.FileSize

\* C10: an UploadSwFile in which the server-reported stored size differs from
\* the descriptor's declared size returns the size-mismatch error, and the
\* descriptor's etag is left unset.
C10_AsStated ==
    UploadSizeDiffers =>
        /\ last.err = ErrWrongUploadSize
        /\ last.fAfter.Etag = ""

\* The same of the caching client alone, where it holds.
C10_CachingClientOnly ==
    (UploadSizeDiffers /\ last.op = "UploadSwFile") =>
        /\ last.err = ErrWrongUploadSize
        /\ last.fAfter.Etag = ""

----------------------------------------------------------------------------
(* C11: what an upload does to the descriptor. *)

\* An UploadSwFile of the caching client has returned, called directly or by
\* UploadFile.
Uploaded == last.op \in {"UploadSwFile", "UploadFile"}

\* C11: whenever UploadSwFile returns without error the descriptor's fileID
\* is the one assign returned and its etag the one the volume server
\* returned, and an upload that returns an error has modified neither.
C11_AsStated ==
    Uploaded =>
        /\ last.err = Nil =>
              /\ last.fAfter.FileID = last.assignResult.FileID
              /\ last.fAfter.Etag = last.calls[2].reply.Etag
        /\ last.err # Nil =>
              /\ last.fAfter.FileID = last.f.FileID
              /\ last.fAfter.Etag = last.f.Etag

\* C11: whenever UploadSwFile returns without error the descriptor's fileID
\* is the one assign returned and its etag the one the volume server
\* returned; the etag is modified only by a successful upload, and the fileID
\* is set to the assigned one as soon as the assign has succeeded, so also
\* by an upload that then fails, and is left alone when the assign fails.
C11_DescriptorAfterUpload ==
    Uploaded =>
        /\ last.err = Nil =>
              /\ last.fAfter.FileID = last.assignResult.FileID
              /\ last.fAfter.Etag = last.calls[2].reply.Etag
        /\ last.err # Nil => last.fAfter.Etag = last.f.Etag
        /\ Len(last.calls) = 2 => last.fAfter.FileID = last.calls[1].reply.body.FileID
        /\ Len(last.calls) = 1 => last.fAfter.FileID = last.f.FileID

\* An upload the volume server refused has returned, the descriptor carrying
\* the assigned fileID and no etag.
C11_Witness ==
    /\ Uploaded
    /\ last.err = ErrTransport
    /\ Len(last.calls) = 2
    /\ last.fAfter.FileID = AssignedFileID
    /\ last.f.FileID = <<>>
    /\ last.fAfter.Etag = ""

----------------------------------------------------------------------------
(* C12, C13: what Assign makes of the master's answer. *)

\* An operation that starts with an assign has returned, and the master's
\* answer to the assign was a decodable body.
Assigned ==
    /\ last.op \in {"Assign", "UploadSwFile", "UploadSwFileNoCache", "UploadFile"}
    /\ last.calls[1].reply.err = Nil
    /\ last.calls[1].reply.decodable

\* The AssignResult the operation handed its caller.
AssignResultOf(l) == IF l.op = "Assign" THEN l.result ELSE l.assignResult

\* C12: an assign response with count 0 yields an error and no AssignResult:
\* Assign hands the caller none, and UploadSwFile issues no upload request.
C12_AsStated ==
    (Assigned /\ last.calls[1].reply.body.Count = 0) =>
        /\ last.err # Nil
        /\ AssignResultOf(last).isNil
        /\ Steps(last.calls, "upload") = <<>>

\* The part of C12 that the code keeps: an error, and no upload request.
C12_NoUploadAfterCountZero ==
    (Assigned /\ last.calls[1].reply.body.Count = 0) =>
        /\ last.err # Nil
        /\ Steps(last.calls, "upload") = <<>>

\* C13: an assign response that carries a non-empty error message fails the
\* assign, whatever its count, and no upload is attempted.
C13_AsStated ==
    (Assigned /\ last.calls[1].reply.body.Error # "") =>
        /\ last.err # Nil
        /\ Steps(last.calls, "upload") = <<>>

----------------------------------------------------------------------------
(* C14: a result or an error. *)

\* The result an operation handed its caller.
ResultOf(l) ==
    IF l.op \in {"UploadSwFile", "UploadFile"} THEN l.assignResult
    ELSE IF l.op = "GetVolumeLocationsFromFileID" THEN l.vls
    ELSE l.result

\* The result is nil, or the zero value of its type.
EmptyResult(l) ==
    IF l.op = "GetVolumeLocationsFromFileID" THEN l.vls = <<>>
    ELSE IF l.op = "Lookup"
    THEN ResultOf(l).isNil \/ ResultOf(l) = ZeroLookupResult
    ELSE IF l.op = "Submit"
    THEN ResultOf(l).isNil \/ ResultOf(l) = ZeroSubmitResult
    ELSE ResultOf(l).isNil \/ ResultOf(l) = ZeroAssignResult

\* The result has every field of a success and carries no error message.
FullyPopulated(l) ==
    IF l.op = "GetVolumeLocationsFromFileID" THEN l.vls # <<>>
    ELSE IF l.op = "Lookup"
    THEN /\ ~ResultOf(l).isNil
         /\ ResultOf(l).VolumeLocations # <<>>
         /\ ResultOf(l).Error = ""
    ELSE IF l.op = "Submit"
    THEN /\ ~ResultOf(l).isNil
         /\ ResultOf(l).FileID # <<>>
         /\ ResultOf(l).Error = ""
    ELSE /\ ~ResultOf(l).isNil
         /\ ResultOf(l).FileID # <<>>
         /\ ResultOf(l).URL # ""
         /\ ResultOf(l).Count > 0
         /\ ResultOf(l).Error = ""

\* C14: for Lookup, Assign, UploadSwFile, UploadFile, Submit and
\* GetVolumeLocationsFromFileID, whenever the returned error is non-nil the
\* returned result is nil or empty, and whenever it is nil the result is
\* fully populated.
C14_AsStated ==
    last.op \in {"Lookup", "Assign", "UploadSwFile", "UploadFile", "Submit",
                 "GetVolumeLocationsFromFileID"} =>
        /\ last.err # Nil => EmptyResult(last)
        /\ last.err = Nil => FullyPopulated(last)

\* The same of the resolver alone, where it holds.
C14_ResolverOnly ==
    last.op = "GetVolumeLocationsFromFileID" =>
        /\ last.err # Nil => EmptyResult(last)
        /\ last.err = Nil => FullyPopulated(last)

\* The operations that hand over a result that is not empty together with an
\* error.
C14_BothReturned ==
    /\ last.op \in {"Lookup", "Assign", "UploadSwFile", "UploadFile", "Submit",
                     "GetVolumeLocationsFromFileID"}
    /\ last.err # Nil
    /\ ~EmptyResult(last)

----------------------------------------------------------------------------
(* C15: the errors that are not retried. *)

\* A Download or a DeleteFile has returned.
Transferred == last.op \in {"Download", "DeleteFile"}

\* The requests the operation sent to volume servers.
VolumeServerCalls(calls) == Steps(calls, "download") \o Steps(calls, "delete")

\* The master lookups of the operation whose body could not be decoded.
UndecodableLookups(calls) ==
    SelectSeq(Steps(calls, "lookup"),
              LAMBDA e : e.reply.err = Nil /\ e.reply.body = Undecodable)

\* C15: in Download and DeleteFile a malformed identifier returns the
\* invalid-identifier error with no master call and no volume-server call,
\* and an undecodable master lookup response returns the decode error after
\* exactly one master call and no volume-server call.
C15_AsStated ==
    Transferred =>
        /\ ~WellFormedID(last.fileID) =>
              /\ last.err = ErrInvalidFileID
              /\ Steps(last.calls, "lookup") = <<>>
              /\ VolumeServerCalls(last.calls) = <<>>
        /\ UndecodableLookups(last.calls) # <<>> =>
              /\ last.err = ErrJSON
              /\ Len(Steps(last.calls, "lookup")) = 1
              /\ VolumeServerCalls(last.calls) = <<>>

\* What holds of the two errors: an identifier the parser rejects costs no
\* call at all, and an undecodable lookup response is the last call of the
\* operation, which returns the decode error.
C15_ErrorsEndTheOperation ==
    Transferred =>
        /\ getVolumeIDFromFileID(last.fileID).err # Nil =>
              /\ last.err = ErrInvalidFileID
              /\ Steps(last.calls, "lookup") = <<>>
              /\ VolumeServerCalls(last.calls) = <<>>
        /\ UndecodableLookups(last.calls) # <<>> =>
              /\ last.err = ErrJSON
              /\ Len(UndecodableLookups(last.calls)) = 1
              /\ last.calls[Len(last.calls)].kind = "lookup"
              /\ last.calls[Len(last.calls)].reply.body = Undecodable

\* The malformed identifier "3," was taken for volume 3 and its delete sent.
C15_MalformedSent ==
    /\ last.op = "DeleteFile"
    /\ last.fileID = <<"3", ",">>
    /\ Len(Steps(last.calls, "delete")) = 1
    /\ last.err = Nil

\* The decode error came on the re-resolve, after a download had been sent.
C15_DecodeErrorOnRetry ==
    /\ last.op = "Download"
    /\ WellFormedID(last.fileID)
    /\ last.err = ErrJSON
    /\ Len(Steps(last.calls, "download")) = 1

----------------------------------------------------------------------------
(* C16: concurrent resolves and the sweep. *)

\* C16: under any interleaving of concurrent resolves and the background
\* sweep, the cache entry of the volume is at every moment absent or exactly
\* a complete location set that one master lookup returned, and the set a
\* caller is handed is such a set too.
C16_NeverTorn ==
    /\ \A k \in DOMAIN cache : cache[k].Object \in inflight.answered
    /\ \A p \in Procs :
          (inflight.procs[p].pc = "done" /\ inflight.procs[p].err = Nil) =>
              inflight.procs[p].vls \in inflight.answered

\* Two resolves raced: the one about to return stored its set first, the
\* other overwrote it with a later, different answer of the master.
C16_Witness ==
    /\ inflight.procs["p1"].pc = "done"
    /\ inflight.procs["p1"].vls = <<LocB>>
    /\ inflight.procs["p2"].pc = "done"
    /\ inflight.procs["p2"].vls = <<LocA, LocB>>
    /\ <<"3">> \in DOMAIN cache
    /\ cache[<<"3">>].Object = <<LocA, LocB>>
    /\ cache[<<"3">>].insertedAt = CleanupInterval

----------------------------------------------------------------------------
(* C17: the upload round trip. *)

\* C17: after UploadFile of a payload no larger than the configured maximum
\* succeeds, with all servers reachable, LookupServerByFileID and
\* LookupFileID of the returned fileID succeed, Download delivers exactly the
\* bytes that were uploaded, and the DeleteFile after them succeeds.
C17_RoundTrip ==
    (/\ last.op = "TestUploadLookupserverDeleteFile"
     /\ last.file.size <= FileSizeLimit
     /\ last.upload = Nil) =>
        /\ last.finished
        /\ last.lookupServer = Nil
        /\ last.download = Nil
        /\ last.downloaded = Content(last.file)
        /\ last.lookupFile = Nil
        /\ last.delete = Nil

\* The round trip of a one-byte file has run to its end on a client whose
\* cache held an entry of the volume.
C17_Witness ==
    /\ last.op = "TestUploadLookupserverDeleteFile"
    /\ last.file.size = FileSizeLimit
    /\ last.upload = Nil
    /\ last.finished
    /\ last.downloaded = Content(last.file)
    /\ last.downloaded # <<>>
    /\ last.delete = Nil
    /\ last.pre # <<>>

----------------------------------------------------------------------------
(* C18: a consumer that returns an error. *)

\* The download requests of the operation whose consumer returned an error.
ConsumerFailures(calls) ==
    SelectSeq(Steps(calls, "download"), LAMBDA e : e.err = ErrConsumer)

\* Every later Download of the same identifier that the cluster serves, its
\* consumer returning no error, succeeds from the state the client is in.
LaterDownloadSucceeds ==
    \A ls \in LocationLists \ {<<>>} :
        \A out \in Served(DownloadLoop(last.fileID, DownloadRetries, TRUE, cache, now,
                                       <<>>, Nil), ls) :
            out.err = Nil /\ out.fileName # ""

\* C18: a Download whose consumer returns an error returns a non-nil error,
\* the consumer's failure never being swallowed, and leaves the client and
\* its cache in a state from which a later Download of the same identifier
\* with a well-behaved consumer succeeds.
C18_AsStated ==
    (last.op = "Download" /\ ConsumerFailures(last.calls) # <<>>) =>
        /\ last.err # Nil
        /\ LaterDownloadSucceeds

\* What holds: when the consumer returns an error each time it is called,
\* Download returns a non-nil error and a later Download succeeds.
C18_EveryInvocationFails ==
    (/\ last.op = "Download"
     /\ ConsumerFailures(last.calls) # <<>>
     /\ ConsumerFailures(last.calls) = Steps(last.calls, "download")) =>
        /\ last.err # Nil
        /\ LaterDownloadSucceeds

\* The consumer returned an error to the first attempt and none to the
\* retry, and Download returned nil.
C18_Swallowed ==
    /\ last.op = "Download"
    /\ Len(ConsumerFailures(last.calls)) = 1
    /\ Len(Steps(last.calls, "download")) = 2
    /\ last.err = Nil

----------------------------------------------------------------------------
(* C19: recovery from a stale cache entry. *)

\* The hosts at which the servers of a location set take the requests of an
\* operation: publicUrl for downloads, url for deletes.
HostsOf(ls, op) ==
    IF op = "Download" THEN {ls[k].PublicURL : k \in 1..Len(ls)}
    ELSE {ls[k].URL : k \in 1..Len(ls)}

\* The operation found the volume in the cache and the server selected from
\* the cached set failed its request, while the master's set for the volume
\* is ls and every server of ls serves the requests it is sent.
StaleHit(l, ls) ==
    /\ l.op \in {"Download", "DeleteFile"}
    /\ Len(l.calls) >= 2
    /\ l.calls[1].kind = "resolve" /\ l.calls[1].withCache /\ l.calls[1].err = Nil
    /\ l.calls[2].kind \in {"download", "delete"}
    /\ l.calls[2].err # Nil
    /\ \A k \in 1..Len(l.calls) :
          /\ l.calls[k].kind = "lookup" => l.calls[k].reply = ServedLookup(ls)
          /\ (l.calls[k].kind \in {"download", "delete"}
                /\ l.calls[k].host \in HostsOf(ls, l.op)) => l.calls[k].err = Nil

\* C19: if the cache holds for the volume a set whose selected server fails
\* the request while the master's current set is non-empty and each of its
\* servers serves the request, Download and DeleteFile succeed, on their
\* second attempt, and the cache entry of the volume is then the master's
\* current set.
C19_StaleHitRecovers ==
    \A ls \in LocationLists \ {<<>>} :
        StaleHit(last, ls) =>
            /\ last.err = Nil
            /\ Len(VolumeServerCalls(last.calls)) = 2
            /\ Len(Steps(last.calls, "lookup")) = 1
            /\ getVolumeIDFromFileID(last.fileID).volumeID \in DOMAIN cache
            /\ cache[getVolumeIDFromFileID(last.fileID).volumeID].Object = ls
            /\ cache[getVolumeIDFromFileID(last.fileID).volumeID].insertedAt = last.at

\* A Download found both servers cached, the one it picked failed, the
\* master now names the other alone, and the cache has taken that answer.
C19_Witness ==
    /\ StaleHit(last, <<LocB>>)
    /\ last.op = "Download"
    /\ last.pre[<<"3">>].Object = <<LocA, LocB>>
    /\ last.calls[2].host = LocA.PublicURL
    /\ last.err = Nil
    /\ cache[<<"3">>].Object = <<LocB>>

\* The same of a DeleteFile.
C19_WitnessDelete ==
    /\ StaleHit(last, <<LocB>>)
    /\ last.op = "DeleteFile"
    /\ last.calls[2].host = LocA.URL
    /\ last.err = Nil
    /\ cache[<<"3">>].Object = <<LocB>>

----------------------------------------------------------------------------
(* C20: what resolves do to the cache. *)

\* An operation that resolves has returned: the resolver itself, or one of
\* the loops that call it.
Resolving == last.op \in {"GetVolumeLocationsFromFileID", "Download", "DeleteFile"}

\* The master lookups of the operation that succeeded: a decodable body
\* without an error message and with a location list that is not empty.
SuccessfulLookups(calls) ==
    SelectSeq(Steps(calls, "lookup"),
              LAMBDA e : /\ e.reply.err = Nil
                         /\ e.reply.body # Undecodable
                         /\ e.reply.body.Error = ""
                         /\ e.reply.body.VolumeLocations # <<>>)

\* The entry a successful lookup at time t leaves: its set, expiring one TTL
\* after t.
EntryOf(e, t) ==
    [Object |-> e.reply.body.VolumeLocations, Expiration |-> t + DefaultTTL,
     insertedAt |-> t]

\* C20: after a resolve, the cache entry of the volume is the set returned
\* by the most recent successful master lookup the resolve made for it, its
\* expiry restarted at that lookup, and the other entries are as they were;
\* a resolve that fails, or makes no successful lookup, leaves the cache
\* exactly as it was; and entries are removed only by the sweep, and only
\* when they have expired.
C20_CacheFollowsLookups ==
    /\ Resolving =>
          LET ok == SuccessfulLookups(last.calls) IN
          /\ ok = <<>> => cache = last.pre
          /\ ok # <<>> =>
                /\ DOMAIN cache = DOMAIN last.pre \cup {ok[Len(ok)].volumeId}
                /\ cache[ok[Len(ok)].volumeId] = EntryOf(ok[Len(ok)], last.at)
                /\ \A k \in DOMAIN last.pre :
                      k # ok[Len(ok)].volumeId => cache[k] = last.pre[k]
          /\ (last.op = "GetVolumeLocationsFromFileID" /\ last.err # Nil) =>
                cache = last.pre
    /\ last.op = "DeleteExpired" =>
          /\ DOMAIN cache \subseteq DOMAIN last.pre
          /\ \A k \in DOMAIN cache : cache[k] = last.pre[k]
          /\ \A k \in DOMAIN last.pre \ DOMAIN cache : Expired(last.pre[k], last.at)
    /\ (last # NoOp /\ last.op # "DeleteExpired") => DOMAIN last.pre \subseteq DOMAIN cache
    /\ \A k \in DOMAIN cache : cache[k].Expiration = cache[k].insertedAt + DefaultTTL

\* A resolve that bypassed the cache has replaced an older entry of the
\* volume by the set of a later lookup and restarted its expiry.
C20_Witness ==
    /\ last.op = "GetVolumeLocationsFromFileID"
    /\ last.err = Nil
    /\ ~last.withCache
    /\ last.at = TickMinutes
    /\ <<"3">> \in DOMAIN last.pre
    /\ last.pre[<<"3">>] = [Object |-> <<LocB>>, Expiration |-> DefaultTTL, insertedAt |-> 0]
    /\ cache[<<"3">>] = [Object |-> <<LocA, LocB>>,
                         Expiration |-> TickMinutes + DefaultTTL,
                         insertedAt |-> TickMinutes]

----------------------------------------------------------------------------
(* C21: who touches the cache. *)

\* The operations that make no call on the cache.
CacheFree ==
    {"Lookup", "LookupServerByFileID", "LookupFileID", "Assign", "Submit",
     "UploadSwFile", "UploadFile", "Grow", "DeleteCollection", "GC", "Status",
     "ClusterStatus"}

\* C21: Lookup, LookupServerByFileID, LookupFileID, Assign, Submit,
\* UploadSwFile, UploadFile, Grow, DeleteCollection, GC, Status and
\* ClusterStatus leave every cache entry as it was and send their request
\* whatever the cache holds: Lookup, and LookupServerByFileID and
\* LookupFileID of an identifier that parses, send exactly one master lookup
\* even when a fresh entry of the volume is cached; and after a DeleteFile
\* that succeeded the entry of the deleted file's volume is in the cache.
C21_OnlyResolverTouchesCache ==
    /\ last.op \in CacheFree =>
          /\ cache = last.pre
          /\ (last.op \in {"LookupServerByFileID", "LookupFileID"}
                /\ getVolumeIDFromFileID(last.fileID).err # Nil) \/ Len(last.calls) >= 1
    /\ last.op = "Lookup" =>
          /\ Len(Steps(last.calls, "lookup")) = 1
          /\ last.calls[1].volumeId = last.volID
    /\ (last.op \in {"LookupServerByFileID", "LookupFileID"}
          /\ getVolumeIDFromFileID(last.fileID).err = Nil) =>
          /\ Len(Steps(last.calls, "lookup")) = 1
          /\ last.calls[1].volumeId = getVolumeIDFromFileID(last.fileID).volumeID
    /\ (last.op = "DeleteFile" /\ last.err = Nil) =>
          /\ getVolumeIDFromFileID(last.fileID).volumeID \in DOMAIN cache
          /\ DOMAIN last.pre \subseteq DOMAIN cache

\* A LookupServerByFileID went to the master although a fresh entry of the
\* volume was cached, and left the cache alone.
C21_Witness ==
    /\ last.op = "LookupServerByFileID"
    /\ last.err = Nil
    /\ Fresh(last.pre, getVolumeIDFromFileID(last.fileID).volumeID, last.at)
    /\ Len(Steps(last.calls, "lookup")) = 1
    /\ cache = last.pre

\* A DeleteFile succeeded from a cache hit and the entry is still there; an
\* upload returned over a cache that holds an entry.
C21_WitnessDelete ==
    /\ last.op = "DeleteFile"
    /\ last.err = Nil
    /\ Steps(last.calls, "lookup") = <<>>
    /\ cache = last.pre

C21_WitnessUpload ==
    /\ last.op = "UploadFile"
    /\ last.err = Nil
    /\ last.pre # <<>>
    /\ cache = last.pre

----------------------------------------------------------------------------
(* C22: the size cap of an upload. *)

\* An UploadSwFile of either client has sent its upload to a volume server
\* that reports the number of bytes it stored.
UploadStored ==
    /\ last.op \in {"UploadSwFile", "UploadSwFileNoCache"}
    /\ Len(last.calls) = 2
    /\ (last.calls[2].reply.err = Nil /\ last.calls[2].reply.decodable) =>
          last.calls[2].reply.Size = last.calls[2].sent

\* C22: UploadSwFile sends at most maxFileSize bytes of the descriptor's
\* content, and for a descriptor whose declared size exceeds maxFileSize,
\* with a server that reports the number of bytes it stored, it never
\* returns success: it fails with the size-mismatch error.
C22_AsStated ==
    UploadStored =>
        /\ last.calls[2].sent <= FileSizeLimit
        /\ last.f.FileSize > FileSizeLimit =>
              /\ last.err # Nil
              /\ (last.calls[2].reply.err = Nil /\ last.calls[2].reply.decodable) =>
                    last.err = ErrWrongUploadSize

\* The same of the caching client alone, where it holds.
C22_CachingClientOnly ==
    (UploadStored /\ last.op = "UploadSwFile") =>
        /\ last.calls[2].sent <= FileSizeLimit
        /\ last.f.FileSize > FileSizeLimit =>
              /\ last.err # Nil
              /\ (last.calls[2].reply.err = Nil /\ last.calls[2].reply.decodable) =>
                    last.err = ErrWrongUploadSize

\* The cacheless client returned success for a descriptor larger than the
\* cap, of whose content the server stored only the capped part.
C22_SilentTruncation ==
    /\ UploadStored
    /\ last.op = "UploadSwFileNoCache"
    /\ last.f.FileSize > FileSizeLimit
    /\ last.f.Reader = last.f.FileSize
    /\ last.calls[2].sent = FileSizeLimit
    /\ last.err = Nil

====
